---------------------------- MODULE Spec2Model ----------------------------
(***************************************************************************)
(* Data Verification Engine (DVE) of fuelsync: the "dve-process" edge      *)
(* function (src/unnamed/part_003).  Each HTTP request is a process; its   *)
(* steps are the awaited store calls of the handler, each taken together   *)
(* with the synchronous code around it.  Store calls return {data, error}  *)
(* and the handler reads only data.                                        *)
(*                                                                         *)
(* Fixed point: scores, factors and trust values are in thousandths        *)
(* (1.0 = 1000), distances and latitudes in metres, time in hours; means   *)
(* are exact fractions.  All coordinates lie on one meridian, where the    *)
(* haversine distance is the difference of the latitudes.                  *)
(***************************************************************************)
EXTENDS Integers, Naturals, Sequences, FiniteSets, Bags, TLC

(* ---------------- DVE_CONFIG (part_003:10-24) ---------------- *)
INITIAL_TRUST_SCORE == 500
TRUST_INCREMENT == 50
TRUST_DECREMENT == 100
MIN_TRUST_SCORE == 100
MAX_TRUST_SCORE == 1000
TIME_DECAY_HALF_LIFE == 24
MAX_REPORT_AGE_HOURS == 168
MAX_DISTANCE_KM == 2000
OPTIMAL_DISTANCE_KM == 500
MIN_REPORTS_FOR_CONSENSUS == 2
CONSENSUS_THRESHOLD == 600
CONSENSUS_BONUS == 200
VERIFICATION_THRESHOLD == 400

(* the fixed-point representation of 1.0 *)
One == MAX_TRUST_SCORE

(* a copy of the configuration kept apart from the constants in use, with  *)
(* the two thresholds exchanged                                             *)
DVE_CONFIG_Copy ==
    [INITIAL_TRUST_SCORE |-> 500, TRUST_INCREMENT |-> 50, TRUST_DECREMENT |-> 100,
     MIN_TRUST_SCORE |-> 100, MAX_TRUST_SCORE |-> 1000,
     TIME_DECAY_HALF_LIFE |-> 24, MAX_REPORT_AGE_HOURS |-> 168,
     MAX_DISTANCE_KM |-> 2000, OPTIMAL_DISTANCE_KM |-> 500,
     MIN_REPORTS_FOR_CONSENSUS |-> 2,
     CONSENSUS_THRESHOLD |-> 400, CONSENSUS_BONUS |-> 200,
     VERIFICATION_THRESHOLD |-> 600]

(* the DVE_CONFIG object as a whole, as get_admin_data returns it *)
DVE_CONFIG ==
    [INITIAL_TRUST_SCORE |-> INITIAL_TRUST_SCORE,
     TRUST_INCREMENT |-> TRUST_INCREMENT,
     TRUST_DECREMENT |-> TRUST_DECREMENT,
     MIN_TRUST_SCORE |-> MIN_TRUST_SCORE,
     MAX_TRUST_SCORE |-> MAX_TRUST_SCORE,
     TIME_DECAY_HALF_LIFE |-> TIME_DECAY_HALF_LIFE,
     MAX_REPORT_AGE_HOURS |-> MAX_REPORT_AGE_HOURS,
     MAX_DISTANCE_KM |-> MAX_DISTANCE_KM,
     OPTIMAL_DISTANCE_KM |-> OPTIMAL_DISTANCE_KM,
     MIN_REPORTS_FOR_CONSENSUS |-> MIN_REPORTS_FOR_CONSENSUS,
     CONSENSUS_THRESHOLD |-> CONSENSUS_THRESHOLD,
     CONSENSUS_BONUS |-> CONSENSUS_BONUS,
     VERIFICATION_THRESHOLD |-> VERIFICATION_THRESHOLD]

(* ---------------- bounds ---------------- *)
MaxReports == 3
MaxTicks == 2

Procs == {"p1", "p2"}
Users == {"u1", "u2"}
FuelTypes == {"Diesel", "CNG"}

(* JS null / undefined *)
Null == -1

(* Table fuel_stations: read-only to the handler.  "A" and "B" are         *)
(* ordinary stations, "Z" lies on the equator (lat = 0), "N" has no        *)
(* latitude, and the id "U" is not in the table.                           *)
fuel_stations ==
    { [id |-> "A", lat |-> 10000, lon |-> 77],
      [id |-> "B", lat |-> 50000, lon |-> 77],
      [id |-> "Z", lat |-> 0,     lon |-> 77],
      [id |-> "N", lat |-> Null,  lon |-> 77] }

StationIds == {"A", "B", "Z", "N", "U"}

(* offsets (metres) of a submitter from the station: within the optimal    *)
(* range (0.1 km), half-way down the linear ramp (1.25 km) and beyond the   *)
(* maximum (3 km); MAX_DISTANCE_KM itself is the fourth offset used         *)
NearBy == OPTIMAL_DISTANCE_KM \div 5
HalfWay == (OPTIMAL_DISTANCE_KM + MAX_DISTANCE_KM) \div 2
TooFar == MAX_DISTANCE_KM + MAX_DISTANCE_KM \div 2

VARIABLES
    crowdsourced_reports,   \* table: sequence of Report rows, in insertion order
    user_trust_scores,      \* table: bag of Trust Score rows (the same row may occur twice)
    verified_fuel_data,     \* table: set of Verified Fuel Entry rows
    now,                    \* wall clock, hours
    pc,                     \* per request: position in the handler
    req,                    \* per request: the `report` object of the body
    loc,                    \* per request: the handler's local variables
    resp,                   \* per request: the Response returned
    probe                   \* a pure function's arguments and results

vars == <<crowdsourced_reports, user_trust_scores, verified_fuel_data,
          now, pc, req, loc, resp, probe>>

stores == <<crowdsourced_reports, user_trust_scores, verified_fuel_data>>

(* ---------------- helpers ---------------- *)
Min(a, b) == IF a <= b THEN a ELSE b
Max(a, b) == IF a >= b THEN a ELSE b
Abs(a) == IF a >= 0 THEN a ELSE 0 - a

RECURSIVE GCD(_, _)
GCD(a, b) == IF b = 0 THEN a ELSE GCD(b, a % b)

(* a rational number of thousandths, in lowest terms *)
Frac(n, d) == [num |-> n \div GCD(n, d), den |-> d \div GCD(n, d)]
FracGeq(f, k) == f.num >= k * f.den

RECURSIVE Pow2(_)
Pow2(n) == IF n <= 0 THEN 1 ELSE 2 * Pow2(n - 1)

Range(s) == { s[i] : i \in 1..Len(s) }

RECURSIVE SelectRows(_, _)
SelectRows(s, keep) ==
    IF s = << >> THEN << >>
    ELSE IF s[1] \in keep THEN <<s[1]>> \o SelectRows(Tail(s), keep)
         ELSE SelectRows(Tail(s), keep)

(* JS truthiness of a number or null: !v *)
Falsy(v) == v = Null \/ v = 0

(* ---------------- pure functions ---------------- *)
(* haversine, on one meridian: R * |dLat| *)
calculateDistance(lat1, lon1, lat2, lon2) == Abs(lat2 - lat1)

(* the age limit tested with >= instead of > *)
calculateTimeDecayExpiresAtLimit(reportTimestamp, dateNow) ==
    LET ageHours == dateNow - reportTimestamp
    IN  IF ageHours >= MAX_REPORT_AGE_HOURS THEN Frac(0, 1)
        ELSE Frac(One, Pow2(ageHours \div TIME_DECAY_HALF_LIFE))

(* the age taken from the start of time instead of from the report's        *)
(* timestamp                                                                *)
calculateTimeDecaySinceEpoch(reportTimestamp, dateNow) ==
    LET ageHours == dateNow
    IN  IF ageHours > MAX_REPORT_AGE_HOURS THEN Frac(0, 1)
        ELSE Frac(One, Pow2(ageHours \div TIME_DECAY_HALF_LIFE))

(* age in hours; Math.pow(0.5, age / half-life) as an exact fraction of    *)
(* thousandths, for ages that are whole numbers of half-lives              *)
calculateTimeDecay(reportTimestamp, dateNow) ==
    LET ageHours == dateNow - reportTimestamp
    IN  IF ageHours > MAX_REPORT_AGE_HOURS THEN Frac(0, 1)
        ELSE Frac(One, Pow2(ageHours \div TIME_DECAY_HALF_LIFE))

(* the out-of-range test with >= instead of > *)
calculateLocationFactorRejectsAtLimit(userLat, userLon, stationLat, stationLon) ==
    LET distance == calculateDistance(userLat, userLon, stationLat, stationLon)
        factor == One - ((distance - OPTIMAL_DISTANCE_KM) * One)
                           \div (MAX_DISTANCE_KM - OPTIMAL_DISTANCE_KM)
    IN  IF distance >= MAX_DISTANCE_KM
          THEN [factor |-> 0, distance |-> distance, isValid |-> FALSE]
        ELSE IF distance <= OPTIMAL_DISTANCE_KM
          THEN [factor |-> One, distance |-> distance, isValid |-> TRUE]
        ELSE [factor |-> Max(0, factor), distance |-> distance, isValid |-> TRUE]

(* the location factor whose out-of-range branch still reports validity *)
calculateLocationFactorAlwaysValid(userLat, userLon, stationLat, stationLon) ==
    LET distance == calculateDistance(userLat, userLon, stationLat, stationLon)
        factor == One - ((distance - OPTIMAL_DISTANCE_KM) * One)
                           \div (MAX_DISTANCE_KM - OPTIMAL_DISTANCE_KM)
    IN  IF distance > MAX_DISTANCE_KM
          THEN [factor |-> 0, distance |-> distance, isValid |-> TRUE]
        ELSE IF distance <= OPTIMAL_DISTANCE_KM
          THEN [factor |-> One, distance |-> distance, isValid |-> TRUE]
        ELSE [factor |-> Max(0, factor), distance |-> distance, isValid |-> TRUE]

calculateLocationFactor(userLat, userLon, stationLat, stationLon) ==
    LET distance == calculateDistance(userLat, userLon, stationLat, stationLon)
        factor == One - ((distance - OPTIMAL_DISTANCE_KM) * One)
                           \div (MAX_DISTANCE_KM - OPTIMAL_DISTANCE_KM)
    IN  IF distance > MAX_DISTANCE_KM
          THEN [factor |-> 0, distance |-> distance, isValid |-> FALSE]
        ELSE IF distance <= OPTIMAL_DISTANCE_KM
          THEN [factor |-> One, distance |-> distance, isValid |-> TRUE]
        ELSE [factor |-> Max(0, factor), distance |-> distance, isValid |-> TRUE]

(* ---------------- the handler's locals ---------------- *)
NoStation == [id |-> "", lat |-> Null, lon |-> Null]

NoReq == [station_id |-> "", fuel_type |-> "", anonymous_user_id |-> "",
          user_lat |-> Null, user_lon |-> Null]

NoLoc == [station |-> NoStation, trustScore |-> Null, dveScore |-> 0,
          isRejected |-> FALSE, cutoff |-> 0, reports |-> << >>, todo |-> << >>,
          fuelType |-> "", idx |-> 0,
          insertedReport |-> Null,  \* data of the insert of the Report row
          error |-> ""]             \* the store call whose result held an error


NoResp == [status |-> 0, body |-> "", isRejected |-> FALSE, score |-> 0]

NoProbe == [age |-> 0, distance |-> 0, applied |-> {},
            timeDecay |-> Frac(0, 1),
            locationResult |-> [factor |-> 0, distance |-> 0, isValid |-> FALSE]]

(* empty tables, no request in flight *)
InitHandler ==
    /\ crowdsourced_reports = << >>
    /\ user_trust_scores = EmptyBag
    /\ verified_fuel_data = {}
    /\ now = 0
    /\ pc = [p \in Procs |-> "idle"]
    /\ req = [p \in Procs |-> NoReq]
    /\ loc = [p \in Procs |-> NoLoc]
    /\ resp = [p \in Procs |-> NoResp]

Init == InitHandler /\ probe = NoProbe



(* ---------------- store operations ---------------- *)
(* .from("fuel_stations").select("id, lat, lon").eq("id", id).single():    *)
(* the row, or null when no row matches                                    *)
selectStation(id) ==
    IF \E s \in fuel_stations : s.id = id
      THEN CHOOSE s \in fuel_stations : s.id = id
      ELSE NoStation

(* .from("user_trust_scores").select("*").eq(...).maybeSingle(): the       *)
(* trust_score of the single matching row; null data when no row matches,  *)
(* and also when several rows match (maybeSingle then reports an error,    *)
(* which the handler does not read)                                        *)
selectUserTrust(table, uid) ==
    LET rows == { r \in BagToSet(table) : r.anonymous_user_id = uid }
    IN  IF BagCardinality([ r \in rows |-> CopiesIn(r, table) ]) = 1
          THEN (CHOOSE r \in rows : TRUE).trust_score
          ELSE Null

(* the insert writing TRUST_INCREMENT in place of the score it is given *)
insertUserTrustWrongConstant(table, uid, score) ==
    table (+) SetToBag({ [anonymous_user_id |-> uid, trust_score |-> TRUST_INCREMENT,
                          total_reports |-> 0, correct_reports |-> 0,
                          incorrect_reports |-> 0] })

(* .from("user_trust_scores").insert({anonymous_user_id, trust_score}):    *)
(* a plain insert; the counters take the column defaults                   *)
insertUserTrust(table, uid, score) ==
    table (+) SetToBag({ [anonymous_user_id |-> uid, trust_score |-> score,
                          total_reports |-> 0, correct_reports |-> 0,
                          incorrect_reports |-> 0] })

(* the window query without .eq("is_rejected", false) *)
selectWindowWithRejected(table, stationId, cutoff) ==
    SelectRows(table, { r \in Range(table) :
                          /\ r.station_id = stationId
                          /\ r.timestamp >= cutoff })

(* the window query without the station filter *)
selectWindowAllStations(table, stationId, cutoff) ==
    SelectRows(table, { r \in Range(table) :
                          /\ r.is_rejected = FALSE
                          /\ r.timestamp >= cutoff })

(* the window query with .gt in place of .gte *)
selectWindowStrictCutoff(table, stationId, cutoff) ==
    SelectRows(table, { r \in Range(table) :
                          /\ r.station_id = stationId
                          /\ r.is_rejected = FALSE
                          /\ r.timestamp > cutoff })

(* the window query issued without awaiting the insert: the row inserted   *)
(* last is not seen                                                         *)
selectWindowBeforeInsert(table, stationId, cutoff) ==
    SelectRows(table, { r \in Range(table) :
                          /\ r.station_id = stationId
                          /\ r.is_rejected = FALSE
                          /\ r.timestamp >= cutoff
                          /\ r.id < Len(table) })

(* .eq("station_id", id).eq("is_rejected", false).gte("timestamp", cutoff) *)
selectWindow(table, stationId, cutoff) ==
    SelectRows(table, { r \in Range(table) :
                          /\ r.station_id = stationId
                          /\ r.is_rejected = FALSE
                          /\ r.timestamp >= cutoff })

(* .insert(row) in place of the upsert *)
insertVerified(table, row) == table \cup {row}

(* the upsert writing is_available as confidence >= CONSENSUS_THRESHOLD    *)
(* instead of true                                                          *)
upsertVerifiedAvailableAboveConsensus(table, row) ==
    { e \in table : ~(e.station_id = row.station_id /\ e.fuel_type = row.fuel_type) }
        \cup { [row EXCEPT !.is_available =
                            row.confidence_score.num
                               >= CONSENSUS_THRESHOLD * row.confidence_score.den] }

(* the upsert with ignoreDuplicates: an entry of the key is left as it is *)
upsertVerifiedIgnoringDuplicates(table, row) ==
    IF \E e \in table : e.station_id = row.station_id /\ e.fuel_type = row.fuel_type
      THEN table
      ELSE table \cup {row}

(* .upsert(row, { onConflict: "station_id,fuel_type" }) *)
upsertVerified(table, row) ==
    { e \in table : ~(e.station_id = row.station_id /\ e.fuel_type = row.fuel_type) }
        \cup {row}

(* the update filtered by the row's station instead of its id *)
updateVerifiedOfStation(table, id) ==
    [ i \in 1..Len(table) |->
        IF \E j \in 1..Len(table) :
               table[j].id = id /\ table[j].station_id = table[i].station_id
          THEN [table[i] EXCEPT !.is_verified = TRUE]
          ELSE table[i] ]

(* the update writing the negation of the flag instead of true *)
updateVerifiedToggle(table, id) ==
    [ i \in 1..Len(table) |->
        IF table[i].id = id THEN [table[i] EXCEPT !.is_verified = ~@]
        ELSE table[i] ]

(* the update filtered on a column that holds no report id: no row matches *)
updateVerifiedNoMatch(table, id) == table

(* .update({ is_verified: true }).eq("id", id) *)
updateVerified(table, id) ==
    [ i \in 1..Len(table) |->
        IF table[i].id = id THEN [table[i] EXCEPT !.is_verified = TRUE]
        ELSE table[i] ]

(* ---------------- consensus computations ---------------- *)
(* keys of fuelTypeReports, in order of first appearance (Object.entries)  *)
RECURSIVE fuelTypeKeys(_)
fuelTypeKeys(reports) ==
    IF reports = << >> THEN << >>
    ELSE <<reports[1].fuel_type>> \o
         fuelTypeKeys(SelectRows(Tail(reports),
            { r \in Range(Tail(reports)) : r.fuel_type # reports[1].fuel_type }))

fuelReportsOf(reports, fuelType) ==
    SelectRows(reports, { r \in Range(reports) : r.fuel_type = fuelType })

(* the number of reports in place of the number of distinct submitters *)
countReports(fuelReports) == Len(fuelReports)

uniqueUsers(fuelReports) ==
    Cardinality({ r.anonymous_user_id : r \in Range(fuelReports) })

(* the sum over the reports that are not verified yet *)
RECURSIVE sumScoresPending(_)
sumScoresPending(fuelReports) ==
    IF fuelReports = << >> THEN 0
    ELSE (IF fuelReports[1].dve_score = Null \/ fuelReports[1].is_verified
            THEN 0 ELSE fuelReports[1].dve_score)
         + sumScoresPending(Tail(fuelReports))

RECURSIVE sumScores(_)
sumScores(fuelReports) ==
    IF fuelReports = << >> THEN 0
    ELSE (IF fuelReports[1].dve_score = Null THEN 0 ELSE fuelReports[1].dve_score)
         + sumScores(Tail(fuelReports))

(* the mean taken over distinct submitters instead of over reports *)
avgScorePerSubmitter(fuelReports) ==
    Frac(sumScores(fuelReports),
         Cardinality({ r.anonymous_user_id : r \in Range(fuelReports) }))

(* avgScore = sum / length, as a fraction *)
avgScore(fuelReports) == Frac(sumScores(fuelReports), Len(fuelReports))

(* finalScore = Math.min(1.0, avgScore + CONSENSUS_BONUS) *)
finalScore(fuelReports) ==
    LET avg == avgScore(fuelReports)
        n == avg.num + CONSENSUS_BONUS * avg.den
    IN  IF n >= One * avg.den THEN Frac(One, 1) ELSE Frac(n, avg.den)

(* the consensus loop without its test of VERIFICATION_THRESHOLD *)
groupPassesWithoutThreshold(fuelReports) ==
    uniqueUsers(fuelReports) >= MIN_REPORTS_FOR_CONSENSUS

(* the two nested conditions of the consensus loop *)
groupPasses(fuelReports) ==
    /\ uniqueUsers(fuelReports) >= MIN_REPORTS_FOR_CONSENSUS
    /\ FracGeq(finalScore(fuelReports), VERIFICATION_THRESHOLD)

(* the loop over Object.entries(fuelTypeReports) runs without awaiting     *)
(* until it meets a group that passes: the rest of the keys from there     *)
RECURSIVE skipGroups(_, _)
skipGroups(reports, todo) ==
    IF todo = << >> THEN << >>
    ELSE IF groupPasses(fuelReportsOf(reports, todo[1])) THEN todo
    ELSE skipGroups(reports, Tail(todo))

(* ---------------- the handler ---------------- *)
Respond(p, r) ==
    /\ pc' = [pc EXCEPT ![p] = "done"]
    /\ resp' = [resp EXCEPT ![p] = r]

okResponse(l) ==
    [status |-> 200, body |-> "dveResult", isRejected |-> l.isRejected,
     score |-> l.dveScore]

errorResponse(status, error) ==
    [status |-> status, body |-> error, isRejected |-> FALSE, score |-> 0]

(* the loop body with the updates of is_verified and no upsert before them *)
ContinueLoopFlaggingFirst(p, l, todo) ==
    LET rest == skipGroups(l.reports, todo)
    IN  IF rest = << >>
          THEN /\ loc' = [loc EXCEPT ![p] = [l EXCEPT !.todo = << >>]]
               /\ Respond(p, okResponse(l))
          ELSE /\ loc' = [loc EXCEPT ![p] = [l EXCEPT !.todo = Tail(rest),
                                                      !.fuelType = rest[1], !.idx = 1]]
               /\ pc' = [pc EXCEPT ![p] = "mark"]
               /\ UNCHANGED resp

(* continue the consensus loop of p from the keys `todo`, with locals l *)
ContinueLoop(p, l, todo) ==
    LET rest == skipGroups(l.reports, todo)
    IN  IF rest = << >>
          THEN /\ loc' = [loc EXCEPT ![p] = [l EXCEPT !.todo = << >>]]
               /\ Respond(p, okResponse(l))
          ELSE /\ loc' = [loc EXCEPT ![p] = [l EXCEPT !.todo = Tail(rest),
                                                      !.fuelType = rest[1], !.idx = 0]]
               /\ pc' = [pc EXCEPT ![p] = "upsert"]
               /\ UNCHANGED resp

(* ---------------- scheduling ---------------- *)
(* a Response that is ready leaves before anything else happens *)
Delivering == \E q \in Procs : pc[q] = "done"

(* the request slots are interchangeable: a new request takes the first    *)
(* free one                                                                 *)
FirstFree(p) == \A q \in Procs : pc[q] = "idle" => p = "p1" \/ q # "p1"

(* request p is at position `at` of the handler and may take its next step *)
At(p, at) == pc[p] = at /\ ~Delivering

(* a new request may arrive on slot p *)
Free(p) == At(p, "idle") /\ FirstFree(p)

InFlight == { q \in Procs : pc[q] \in {"trust", "trust_insert", "insert"} }

(* the validation without the check of user_lon *)
missingRequiredFieldsButLon(report) ==
    \/ report.station_id = "" \/ report.fuel_type = ""
    \/ report.anonymous_user_id = ""
    \/ report.user_lat = Null

(* !report.station_id || !report.fuel_type || !report.anonymous_user_id ||  *)
(* report.user_lat === undefined || report.user_lon === undefined           *)
missingRequiredFields(report) ==
    \/ report.station_id = "" \/ report.fuel_type = ""
    \/ report.anonymous_user_id = ""
    \/ report.user_lat = Null \/ report.user_lon = Null

(* the station check reading only the longitude *)
stationNotFoundByLon(station) == Falsy(station.lon)

(* !station?.lat || !station?.lon *)
stationNotFound(station) == Falsy(station.lat) \/ Falsy(station.lon)

(* action === "submit_report": validation, then await fuel_stations ...      *)
(* single(); fuel_stations is never written, so the lookup reads the same   *)
(* row whenever it runs and is taken in the same step.                      *)
Receive(p, report) ==
    /\ req' = [req EXCEPT ![p] = report]
    /\ IF missingRequiredFields(report)
         THEN /\ Respond(p, errorResponse(400, "Missing required fields"))
              /\ UNCHANGED loc
         ELSE LET station == selectStation(report.station_id)
              IN  IF stationNotFound(station)
                    THEN /\ Respond(p, errorResponse(404,
                                       "Station not found or missing coordinates"))
                         /\ UNCHANGED loc
                    ELSE /\ loc' = [loc EXCEPT ![p].station = station]
                         /\ pc' = [pc EXCEPT ![p] = "trust"]
                         /\ UNCHANGED resp
    /\ UNCHANGED <<stores, now, probe>>

(* a submit_report request arrives on a free slot, while the Report table   *)
(* has room                                                                 *)
SubmitReport(p, report) ==
    /\ Free(p)
    /\ Len(crowdsourced_reports) + Cardinality(InFlight) < MaxReports
    /\ Receive(p, report)

(* await user_trust_scores ... maybeSingle() *)
TrustRead(p) ==
    /\ At(p, "trust")
    /\ LET userTrust == selectUserTrust(user_trust_scores, req[p].anonymous_user_id)
       IN  /\ loc' = [loc EXCEPT ![p].trustScore = userTrust]
           /\ pc' = [pc EXCEPT ![p] = IF userTrust = Null THEN "trust_insert" ELSE "insert"]
    /\ UNCHANGED <<stores, now, probe, req, resp>>

(* if (!userTrust) await user_trust_scores.insert(...) *)
TrustInsert(p) ==
    /\ At(p, "trust_insert")
    /\ user_trust_scores' = insertUserTrust(user_trust_scores,
                                req[p].anonymous_user_id, INITIAL_TRUST_SCORE)
    /\ loc' = [loc EXCEPT ![p].trustScore = INITIAL_TRUST_SCORE]
    /\ pc' = [pc EXCEPT ![p] = "insert"]
    /\ UNCHANGED <<crowdsourced_reports, verified_fuel_data, now, probe, req, resp>>

(* the score without the location factor *)
combineScoreWithoutLocation(trustScore, timeDecay, locationFactor) ==
    (trustScore * timeDecay.num) \div (timeDecay.den * One)

(* dveScore = trustScore * timeDecay * locationResult.factor *)
combineScore(trustScore, timeDecay, locationFactor) ==
    (trustScore * timeDecay.num * locationFactor) \div (timeDecay.den * One * One)

(* the Report row the handler builds from its request and locals at time t *)
scoredReport(id, report, l, t) ==
    LET trustScore == l.trustScore
        timeDecay == calculateTimeDecay(t, t)
        locationResult == calculateLocationFactor(report.user_lat, report.user_lon,
                                                  l.station.lat, l.station.lon)
        isRejected == ~locationResult.isValid
    IN  [id |-> id,
         station_id |-> report.station_id,
         anonymous_user_id |-> report.anonymous_user_id,
         fuel_type |-> report.fuel_type,
         user_lat |-> report.user_lat,
         user_lon |-> report.user_lon,
         timestamp |-> t,
         trust_score_at_submission |-> trustScore,
         time_decay_factor |-> timeDecay,
         location_factor |-> locationResult.factor,
         dve_score |-> IF isRejected THEN 0
                       ELSE combineScore(trustScore, timeDecay, locationResult.factor),
         is_verified |-> FALSE,
         is_rejected |-> isRejected,
         rejection_reason |-> IF isRejected
                                THEN <<"User too far from station", locationResult.distance>>
                                ELSE << >>]

(* scoring, then await crowdsourced_reports.insert(...); cutoffDate is      *)
(* taken as soon as the insert has returned                                 *)
InsertReport(p) ==
    /\ At(p, "insert")
    /\ LET row == scoredReport(Len(crowdsourced_reports) + 1, req[p], loc[p], now)
       IN  /\ crowdsourced_reports' = Append(crowdsourced_reports, row)
           /\ loc' = [loc EXCEPT ![p].dveScore = row.dve_score,
                                 ![p].isRejected = row.is_rejected,
                                 ![p].insertedReport = row.id,
                                 ![p].cutoff = now - MAX_REPORT_AGE_HOURS]
    /\ pc' = [pc EXCEPT ![p] = "window"]
    /\ UNCHANGED <<user_trust_scores, verified_fuel_data, now, probe, req, resp>>

(* the window query with the early exit taken at MIN_REPORTS_FOR_CONSENSUS  *)
(* reports too (> in place of >=)                                           *)
ConsensusQueryStrictExit(p) ==
    /\ At(p, "window")
    /\ LET reports == selectWindow(crowdsourced_reports, req[p].station_id, loc[p].cutoff)
           l == [loc[p] EXCEPT !.reports = reports]
       IN  IF Len(reports) > MIN_REPORTS_FOR_CONSENSUS
             THEN ContinueLoop(p, l, fuelTypeKeys(reports))
             ELSE ContinueLoop(p, l, << >>)
    /\ UNCHANGED <<stores, now, probe, req>>

(* await the consensus window; then the loop up to its first upsert *)
ConsensusQuery(p) ==
    /\ At(p, "window")
    /\ LET reports == selectWindow(crowdsourced_reports, req[p].station_id, loc[p].cutoff)
           l == [loc[p] EXCEPT !.reports = reports]
       IN  IF Len(reports) >= MIN_REPORTS_FOR_CONSENSUS
             THEN ContinueLoop(p, l, fuelTypeKeys(reports))
             ELSE ContinueLoop(p, l, << >>)
    /\ UNCHANGED <<stores, now, probe, req>>

(* await verified_fuel_data.upsert(...) *)
UpsertEntry(p) ==
    /\ At(p, "upsert")
    /\ LET fuelReports == fuelReportsOf(loc[p].reports, loc[p].fuelType)
       IN  verified_fuel_data' = upsertVerified(verified_fuel_data,
               [station_id |-> req[p].station_id,
                fuel_type |-> loc[p].fuelType,
                is_available |-> TRUE,
                confidence_score |-> finalScore(fuelReports),
                verified_by_count |-> uniqueUsers(fuelReports),
                last_verified_at |-> now])
    /\ loc' = [loc EXCEPT ![p].idx = 1]
    /\ pc' = [pc EXCEPT ![p] = "mark"]
    /\ UNCHANGED <<crowdsourced_reports, user_trust_scores, now, probe, req, resp>>

(* the loop also raising the trust of the submitter of each report it       *)
(* flags, by TRUST_INCREMENT up to MAX_TRUST_SCORE                          *)
MarkVerifiedRewardingTrust(p) ==
    /\ At(p, "mark")
    /\ LET fuelReports == fuelReportsOf(loc[p].reports, loc[p].fuelType)
           submitter == fuelReports[loc[p].idx].anonymous_user_id
           rewarded(r) ==
               IF r.anonymous_user_id = submitter
                 THEN [r EXCEPT !.trust_score = Min(MAX_TRUST_SCORE, @ + TRUST_INCREMENT),
                                !.correct_reports = @ + 1]
                 ELSE r
       IN  /\ crowdsourced_reports' =
                  updateVerified(crowdsourced_reports, fuelReports[loc[p].idx].id)
           /\ user_trust_scores' = BagOfAll(rewarded, user_trust_scores)
           /\ IF loc[p].idx < Len(fuelReports)
                THEN /\ loc' = [loc EXCEPT ![p].idx = @ + 1]
                     /\ UNCHANGED <<pc, resp>>
                ELSE ContinueLoop(p, loc[p], loc[p].todo)
    /\ UNCHANGED <<verified_fuel_data, now, probe, req>>

(* the loop also rescoring each report it flags by its age at that time    *)
MarkVerifiedRescoring(p) ==
    /\ At(p, "mark")
    /\ LET fuelReports == fuelReportsOf(loc[p].reports, loc[p].fuelType)
           id == fuelReports[loc[p].idx].id
           rescored(r) ==
               LET timeDecay == calculateTimeDecay(r.timestamp, now)
               IN  [r EXCEPT !.is_verified = TRUE,
                             !.time_decay_factor = timeDecay,
                             !.dve_score = combineScore(r.trust_score_at_submission,
                                                        timeDecay, r.location_factor)]
       IN  /\ crowdsourced_reports' =
                  [ i \in 1..Len(crowdsourced_reports) |->
                      IF crowdsourced_reports[i].id = id
                        THEN rescored(crowdsourced_reports[i])
                        ELSE crowdsourced_reports[i] ]
           /\ IF loc[p].idx < Len(fuelReports)
                THEN /\ loc' = [loc EXCEPT ![p].idx = @ + 1]
                     /\ UNCHANGED <<pc, resp>>
                ELSE ContinueLoop(p, loc[p], loc[p].todo)
    /\ UNCHANGED <<user_trust_scores, verified_fuel_data, now, probe, req>>

(* for (const r of fuelReports) await crowdsourced_reports.update(...) *)
MarkVerified(p) ==
    /\ At(p, "mark")
    /\ LET fuelReports == fuelReportsOf(loc[p].reports, loc[p].fuelType)
       IN  /\ crowdsourced_reports' =
                  updateVerified(crowdsourced_reports, fuelReports[loc[p].idx].id)
           /\ IF loc[p].idx < Len(fuelReports)
                THEN /\ loc' = [loc EXCEPT ![p].idx = @ + 1]
                     /\ UNCHANGED <<pc, resp>>
                ELSE ContinueLoop(p, loc[p], loc[p].todo)
    /\ UNCHANGED <<user_trust_scores, verified_fuel_data, now, probe, req>>

(* action === "get_admin_data": three reads, nothing written *)
GetAdminData(p) ==
    /\ Free(p)
    /\ Respond(p, [status |-> 200, body |-> "admin", isRejected |-> FALSE, score |-> 0,
                   config |-> DVE_CONFIG])
    /\ UNCHANGED <<stores, now, probe, req, loc>>

(* the Response leaves; the slot is free for the next request *)
Return(p) ==
    /\ pc[p] = "done"
    /\ pc' = [pc EXCEPT ![p] = "idle"]
    /\ req' = [req EXCEPT ![p] = NoReq]
    /\ loc' = [loc EXCEPT ![p] = NoLoc]
    /\ resp' = [resp EXCEPT ![p] = NoResp]
    /\ UNCHANGED <<stores, now, probe>>

(* time passes, one report-age window at a time; a request is short        *)
(* against that, so the clock moves between requests                       *)
Tick ==
    /\ now < MaxTicks * MAX_REPORT_AGE_HOURS
    /\ \A p \in Procs : pc[p] = "idle"
    /\ now' = now + MAX_REPORT_AGE_HOURS
    /\ UNCHANGED <<stores, pc, req, loc, resp, probe>>

(* ---------------- the bodies a client may send ---------------- *)
(* the meridian every coordinate lies on *)
Meridian == selectStation("A").lon

Body(s, f, u, d) ==
    [station_id |-> s, fuel_type |-> f, anonymous_user_id |-> u,
     user_lat |-> (IF selectStation(s).lat = Null THEN 0 ELSE selectStation(s).lat) + d,
     user_lon |-> Meridian]

(* the body PumpDetails sends: the same, with its is_manual_location flag *)
ManualBody(s, f, u, d, manual) ==
    Body(s, f, u, d) @@ [is_manual_location |-> manual]

(* well-formed submissions for a station that can be scored: two           *)
(* submitters in range, one out of range, and a second fuel type           *)
ValidRequests ==
    { Body("A", "Diesel", "u1", NearBy), Body("A", "Diesel", "u2", NearBy),
      Body("A", "Diesel", "u1", TooFar),
      Body("A", "CNG", "u1", NearBy) }

(* the same submission with one required field absent *)
IncompleteRequests ==
    LET b == Body("A", "Diesel", "u1", NearBy)
    IN  { [b EXCEPT !.station_id = ""], [b EXCEPT !.fuel_type = ""],
          [b EXCEPT !.anonymous_user_id = ""], [b EXCEPT !.user_lat = Null],
          [b EXCEPT !.user_lon = Null] }

(* submissions for stations that cannot be scored *)
UnscorableRequests == { Body(s, "Diesel", "u1", NearBy) : s \in {"Z", "N", "U"} }

Requests == ValidRequests \cup IncompleteRequests \cup UnscorableRequests

Next ==
    \/ \E p \in Procs, r \in Requests : SubmitReport(p, r)
    \/ \E p \in Procs : TrustRead(p)
    \/ \E p \in Procs : TrustInsert(p)
    \/ \E p \in Procs : InsertReport(p)
    \/ \E p \in Procs : ConsensusQuery(p)
    \/ \E p \in Procs : UpsertEntry(p)
    \/ \E p \in Procs : MarkVerified(p)
    \/ \E p \in Procs : GetAdminData(p)
    \/ \E p \in Procs : Return(p)
    \/ Tick

Spec == Init /\ [][Next]_vars

(* ---------------- one request at a time ---------------- *)
(* submissions over more distances, both fuel types and a second station   *)
SeqRequests ==
    { Body("A", "Diesel", "u1", d) : d \in {NearBy, HalfWay} }
      \cup { Body("A", "Diesel", "u2", d) : d \in {NearBy, MAX_DISTANCE_KM, TooFar} }
      \cup { Body("A", "CNG", u, NearBy) : u \in Users }
      \cup { Body("B", "Diesel", "u1", NearBy) }
      \cup { ManualBody("A", "Diesel", "u1", NearBy, TRUE) }
      \cup IncompleteRequests \cup UnscorableRequests

(* the same handler when no two requests overlap: every request is served  *)
(* on the first slot, which is free again only after its Response          *)
NextSeq ==
    \/ \E r \in SeqRequests : SubmitReport("p1", r)
    \/ TrustRead("p1")
    \/ TrustInsert("p1")
    \/ InsertReport("p1")
    \/ ConsensusQuery("p1")
    \/ UpsertEntry("p1")
    \/ MarkVerified("p1")
    \/ GetAdminData("p1")
    \/ Return("p1")
    \/ Tick

SpecSeq == Init /\ [][NextSeq]_vars

(* ---------------- overlapping requests, then one alone ---------------- *)
(* reports of one key with scores 0.5 (in range), 0.25 (half way) and 0    *)
(* (at the maximal distance)                                                *)
RaceRequests ==
    { Body("A", "Diesel", "u1", NearBy), Body("A", "Diesel", "u2", NearBy),
      Body("A", "Diesel", "u2", HalfWay), Body("A", "Diesel", "u2", MAX_DISTANCE_KM) }

(* one more request arrives when the table is full and no request is in    *)
(* flight; no other request arrives before it has been answered             *)
SubmitAlone(p, report) ==
    /\ \A q \in Procs : pc[q] = "idle"
    /\ Len(crowdsourced_reports) = MaxReports
    /\ Receive(p, report)

NextRace ==
    \/ \E p \in Procs : \E r \in RaceRequests : SubmitReport(p, r)
    \/ \E r \in RaceRequests : SubmitAlone("p1", r)
    \/ \E p \in Procs : TrustRead(p)
    \/ \E p \in Procs : TrustInsert(p)
    \/ \E p \in Procs : InsertReport(p)
    \/ \E p \in Procs : ConsensusQuery(p)
    \/ \E p \in Procs : UpsertEntry(p)
    \/ \E p \in Procs : MarkVerified(p)
    \/ \E p \in Procs : Return(p)

SpecRace == Init /\ [][NextRace]_vars

(* ---------------- store calls that fail ---------------- *)
(* A store call that fails resolves to { data: null, error }: the client   *)
(* does not throw, and the handler reads `data` only. At most one call of   *)
(* a request fails.                                                         *)
StoreCalls == { "fuel_stations.select", "user_trust_scores.select",
                "user_trust_scores.insert", "crowdsourced_reports.insert",
                "crowdsourced_reports.select", "verified_fuel_data.upsert",
                "crowdsourced_reports.update" }

(* the station lookup fails: station is null *)
FailStationLookup(p, report) ==
    /\ Free(p)
    /\ ~missingRequiredFields(report)
    /\ req' = [req EXCEPT ![p] = report]
    /\ IF stationNotFound(NoStation)
         THEN /\ Respond(p, errorResponse(404,
                            "Station not found or missing coordinates"))
              /\ loc' = [loc EXCEPT ![p].error = "fuel_stations.select"]
         ELSE /\ loc' = [loc EXCEPT ![p].station = NoStation,
                                    ![p].error = "fuel_stations.select"]
              /\ pc' = [pc EXCEPT ![p] = "trust"]
              /\ UNCHANGED resp
    /\ UNCHANGED <<stores, now, probe>>

(* the trust read fails: userTrust is null, so the handler inserts a row *)
FailTrustRead(p) ==
    /\ At(p, "trust") /\ loc[p].error = ""
    /\ loc' = [loc EXCEPT ![p].trustScore = Null,
                          ![p].error = "user_trust_scores.select"]
    /\ pc' = [pc EXCEPT ![p] = "trust_insert"]
    /\ UNCHANGED <<stores, now, probe, req, resp>>

(* the trust insert fails: no row, trustScore falls back to the initial one *)
FailTrustInsert(p) ==
    /\ At(p, "trust_insert") /\ loc[p].error = ""
    /\ loc' = [loc EXCEPT ![p].trustScore = INITIAL_TRUST_SCORE,
                          ![p].error = "user_trust_scores.insert"]
    /\ pc' = [pc EXCEPT ![p] = "insert"]
    /\ UNCHANGED <<stores, now, probe, req, resp>>

(* the insert of the Report row fails: insertedReport is null; such a       *)
(* request may leave a Trust Score row and no Report row, so it is taken    *)
(* only while the Trust Score table is small                                *)
FailInsertReport(p) ==
    /\ At(p, "insert") /\ loc[p].error = ""
    /\ BagCardinality(user_trust_scores) <= MaxReports
    /\ LET row == scoredReport(Len(crowdsourced_reports) + 1, req[p], loc[p], now)
       IN  loc' = [loc EXCEPT ![p].dveScore = row.dve_score,
                             ![p].isRejected = row.is_rejected,
                             ![p].insertedReport = Null,
                             ![p].cutoff = now - MAX_REPORT_AGE_HOURS,
                             ![p].error = "crowdsourced_reports.insert"]
    /\ pc' = [pc EXCEPT ![p] = "window"]
    /\ UNCHANGED <<stores, now, probe, req, resp>>

(* the window query fails: reports is null and the loop is skipped *)
FailConsensusQuery(p) ==
    /\ At(p, "window") /\ loc[p].error = ""
    /\ ContinueLoop(p, [loc[p] EXCEPT !.reports = << >>,
                                      !.error = "crowdsourced_reports.select"], << >>)
    /\ UNCHANGED <<stores, now, probe, req>>

(* the upsert fails: no entry is written, the loop goes on to the updates *)
FailUpsertEntry(p) ==
    /\ At(p, "upsert") /\ loc[p].error = ""
    /\ loc' = [loc EXCEPT ![p].idx = 1, ![p].error = "verified_fuel_data.upsert"]
    /\ pc' = [pc EXCEPT ![p] = "mark"]
    /\ UNCHANGED <<stores, now, probe, req, resp>>

(* one update of is_verified fails: that row is left, the loop goes on *)
FailMarkVerified(p) ==
    /\ At(p, "mark") /\ loc[p].error = ""
    /\ LET fuelReports == fuelReportsOf(loc[p].reports, loc[p].fuelType)
           l == [loc[p] EXCEPT !.error = "crowdsourced_reports.update"]
       IN  IF loc[p].idx < Len(fuelReports)
             THEN /\ loc' = [loc EXCEPT ![p] = [l EXCEPT !.idx = @ + 1]]
                  /\ UNCHANGED <<pc, resp>>
             ELSE ContinueLoop(p, l, loc[p].todo)
    /\ UNCHANGED <<stores, now, probe, req>>

(* requests served one at a time, any one store call of a request failing *)
NextFail ==
    \/ \E r \in ValidRequests : SubmitReport("p1", r)
    \/ \E r \in ValidRequests : FailStationLookup("p1", r)
    \/ TrustRead("p1")
    \/ FailTrustRead("p1")
    \/ TrustInsert("p1")
    \/ FailTrustInsert("p1")
    \/ InsertReport("p1")
    \/ FailInsertReport("p1")
    \/ ConsensusQuery("p1")
    \/ FailConsensusQuery("p1")
    \/ UpsertEntry("p1")
    \/ FailUpsertEntry("p1")
    \/ MarkVerified("p1")
    \/ FailMarkVerified("p1")
    \/ Return("p1")

SpecFail == Init /\ [][NextFail]_vars

(* ---------------- the scoring functions on their own ---------------- *)
(* ages (hours): every whole number of half-lives up to one beyond the     *)
(* limit, and the first hour beyond the limit                              *)
Ages ==
    { k * TIME_DECAY_HALF_LIFE :
        k \in 0..(MAX_REPORT_AGE_HOURS \div TIME_DECAY_HALF_LIFE + 1) }
      \cup { MAX_REPORT_AGE_HOURS + 1 }

(* distances (metres): a tenth of the ramp apart, from below the optimal   *)
(* distance to beyond the maximum                                          *)
RampStep == (MAX_DISTANCE_KM - OPTIMAL_DISTANCE_KM) \div 10
Distances ==
    { 0, NearBy, TooFar }
      \cup { OPTIMAL_DISTANCE_KM + k * RampStep : k \in (0 - 1)..11 }

InitFn ==
    /\ InitHandler
    /\ probe \in { [NoProbe EXCEPT !.age = a, !.distance = d] :
                      a \in Ages, d \in Distances }

(* calculateTimeDecay of a report of the age probed *)
ApplyTimeDecay ==
    /\ "timeDecay" \notin probe.applied
    /\ probe' = [probe EXCEPT !.applied = @ \cup {"timeDecay"},
                              !.timeDecay = calculateTimeDecay(now, now + probe.age)]
    /\ UNCHANGED <<stores, now, pc, req, loc, resp>>

(* calculateLocationFactor of a submitter at the distance probed from     *)
(* station "A"                                                             *)
ApplyLocationFactor ==
    /\ "locationResult" \notin probe.applied
    /\ LET station == selectStation("A")
       IN  probe' = [probe EXCEPT
                       !.applied = @ \cup {"locationResult"},
                       !.locationResult =
                           calculateLocationFactor(station.lat + probe.distance,
                                                   station.lon, station.lat, station.lon)]
    /\ UNCHANGED <<stores, now, pc, req, loc, resp>>

NextFn == ApplyTimeDecay \/ ApplyLocationFactor

SpecFn == InitFn /\ [][NextFn]_vars

(***************************************************************************)
(* Properties                                                              *)
(***************************************************************************)
Rows == Range(crowdsourced_reports)

(* the reports of one fuel type in the window request p has read *)
WindowGroup(p) ==
    { r \in Range(loc[p].reports) : r.fuel_type = loc[p].fuelType }

(* request p takes a step *)
Steps(p) == <<pc[p], loc[p], resp[p]>>' # <<pc[p], loc[p], resp[p]>>

RECURSIVE TotalScore(_)
TotalScore(S) ==
    IF S = {} THEN 0
    ELSE LET r == CHOOSE x \in S : TRUE
         IN  r.dve_score + TotalScore(S \ {r})

(* C1: whenever a run has upserted an entry for (station, fuel type), the  *)
(* window it read holds non-rejected reports of that station and fuel type *)
(* from at least MIN_REPORTS_FOR_CONSENSUS distinct submitters; and every  *)
(* entry in the store has that many distinct submitters among the          *)
(* non-rejected reports of its key, so one submitter alone never makes one *)
C1_EntryNeedsDistinctSubmitters ==
    /\ \A p \in Procs : pc[p] = "mark" =>
          Cardinality({ r.anonymous_user_id :
                          r \in { x \in WindowGroup(p) :
                                    /\ x.station_id = req[p].station_id
                                    /\ ~x.is_rejected } })
              >= MIN_REPORTS_FOR_CONSENSUS
    /\ \A e \in verified_fuel_data :
          Cardinality({ r.anonymous_user_id :
                          r \in { x \in Rows : /\ x.station_id = e.station_id
                                               /\ x.fuel_type = e.fuel_type
                                               /\ ~x.is_rejected } })
              >= MIN_REPORTS_FOR_CONSENSUS

C1_Witness ==
    \E p \in Procs :
        /\ pc[p] = "mark"
        /\ \E e \in verified_fuel_data :
              e.station_id = req[p].station_id /\ e.fuel_type = loc[p].fuelType
        /\ \E u \in Users :
              Cardinality({ r \in Rows : r.anonymous_user_id = u /\ ~r.is_rejected }) >= 2

(* C2: the confidence an upsert writes is min(1.0, sum of dve_score over   *)
(* the reports of the group / number of reports + CONSENSUS_BONUS)         *)
C2_ConfidenceIsMeanOverReportsPlusBonus ==
    [][\A p \in Procs : (pc[p] = "upsert" /\ pc'[p] = "mark") =>
          LET n == Cardinality(WindowGroup(p))
              total == TotalScore(WindowGroup(p))
          IN  \E e \in verified_fuel_data' :
                  /\ e.station_id = req[p].station_id
                  /\ e.fuel_type = loc[p].fuelType
                  /\ IF total + CONSENSUS_BONUS * n >= One * n
                       THEN e.confidence_score.num = One * e.confidence_score.den
                       ELSE e.confidence_score.num * n =
                              (total + CONSENSUS_BONUS * n) * e.confidence_score.den
      ]_vars

C2_Witness ==
    \E p \in Procs :
        /\ pc[p] = "mark"
        /\ Cardinality(WindowGroup(p)) = 3
        /\ Cardinality({ r.anonymous_user_id : r \in WindowGroup(p) }) = 2
        /\ \E r \in WindowGroup(p) : r.dve_score = 0

(* C3: no Report row is both verified and rejected *)
C3_VerifiedExcludesRejected ==
    \A r \in Rows : ~(r.is_verified /\ r.is_rejected)

C3_Witness ==
    \E r, v \in Rows :
        /\ r.is_rejected /\ v.is_verified
        /\ r.station_id = v.station_id /\ r.fuel_type = v.fuel_type
        /\ r.id < v.id

(* C4: a Report row that is verified stays verified in every step *)
C4_VerifiedIsNeverUnset ==
    [][\A i \in 1..Len(crowdsourced_reports) :
          crowdsourced_reports[i].is_verified =>
             /\ i <= Len(crowdsourced_reports')
             /\ crowdsourced_reports'[i].is_verified
      ]_vars

(* a verified report has aged out of the window and a later run has        *)
(* verified a report submitted after that                                  *)
C4_Witness ==
    \E r, v \in Rows :
        /\ r.is_verified /\ v.is_verified
        /\ v.timestamp - r.timestamp > MAX_REPORT_AGE_HOURS

(* C5: a Report row that is rejected is the same row after every step *)
C5_RejectedRowIsImmutable ==
    [][\A i \in 1..Len(crowdsourced_reports) :
          crowdsourced_reports[i].is_rejected =>
             /\ i <= Len(crowdsourced_reports')
             /\ crowdsourced_reports'[i] = crowdsourced_reports[i]
      ]_vars

(* a run has verified reports of the key of an earlier rejected report,    *)
(* which is still in the window by its age                                 *)
C5_Witness ==
    \E r, v, w \in Rows :
        /\ r.is_rejected /\ v.is_verified /\ w.is_verified
        /\ r.station_id = v.station_id /\ r.fuel_type = v.fuel_type
        /\ r.id < v.id /\ v.id < w.id
        /\ r.timestamp = w.timestamp

(* C6: at most one Verified Fuel Entry per (station, fuel type) *)
C6_OneEntryPerKey ==
    \A e, f \in verified_fuel_data :
        (e.station_id = f.station_id /\ e.fuel_type = f.fuel_type) => e = f

(* two concurrent runs have both upserted the same key, from different     *)
(* windows                                                                  *)
C6_Witness ==
    \E p, q \in Procs :
        /\ p # q
        /\ pc[p] = "mark" /\ pc[q] = "mark"
        /\ req[p].station_id = req[q].station_id
        /\ loc[p].fuelType = loc[q].fuelType
        /\ Len(loc[p].reports) # Len(loc[q].reports)

(* C7: at most one Trust Score row per submitter id *)
C7_OneTrustRowPerSubmitter ==
    \A u \in Users :
        BagCardinality([ r \in { x \in BagToSet(user_trust_scores) :
                                    x.anonymous_user_id = u }
                           |-> CopiesIn(r, user_trust_scores) ]) <= 1

(* a request body lacks one of the five required fields *)
LacksRequiredField(r) ==
    \/ "" \in { r.station_id, r.fuel_type, r.anonymous_user_id }
    \/ Null \in { r.user_lat, r.user_lon }

(* request p arrives in this step as a submit_report *)
Arrives(p) == pc[p] = "idle" /\ pc'[p] # "idle" /\ resp'[p].body # "admin"

UnknownOrUncoordinated(id) ==
    ~ \E s \in fuel_stations : s.id = id /\ s.lat # Null /\ s.lon # Null

(* C9: a complete submit_report for an unknown station, or one without a   *)
(* latitude or longitude, is answered at once with status 404 and writes   *)
(* to no store                                                             *)
C9_UnknownStationIsNotFound ==
    [][\A p \in Procs :
          (/\ Arrives(p)
           /\ ~LacksRequiredField(req'[p])
           /\ UnknownOrUncoordinated(req'[p].station_id)) =>
             /\ pc'[p] = "done"
             /\ resp'[p].status = 404
             /\ stores' = stores
      ]_vars

C9_Witness ==
    \E p \in Procs :
        /\ pc[p] = "done" /\ resp[p].status = 404
        /\ req[p].station_id = "N"
        /\ \A r \in BagToSet(user_trust_scores) :
              r.anonymous_user_id # req[p].anonymous_user_id

(* the submitter of the request being handled on p is out of range *)
OutOfRange(p) ==
    /\ pc[p] \in {"insert", "window", "upsert", "mark", "done"}
    /\ resp[p].status \in {0, 200}
    /\ resp[p].body # "admin"
    /\ Abs(req[p].user_lat - selectStation(req[p].station_id).lat) > MAX_DISTANCE_KM

(* C10: an out-of-range submission appends exactly one Report row, with    *)
(* is_rejected, a rejection reason and dve_score 0; no other step of the   *)
(* request adds a row; and its Response has status 200 and isRejected      *)
C10_OutOfRangeIsRejectedNotFailed ==
    [][\A p \in Procs : (OutOfRange(p) /\ Steps(p)) =>
          /\ pc[p] = "insert" =>
                /\ Len(crowdsourced_reports') = Len(crowdsourced_reports) + 1
                /\ SubSeq(crowdsourced_reports', 1, Len(crowdsourced_reports))
                      = crowdsourced_reports
                /\ LET row == crowdsourced_reports'[Len(crowdsourced_reports')]
                   IN  /\ row.station_id = req[p].station_id
                       /\ row.anonymous_user_id = req[p].anonymous_user_id
                       /\ row.fuel_type = req[p].fuel_type
                       /\ row.is_rejected
                       /\ row.rejection_reason # << >>
                       /\ row.dve_score = 0
          /\ pc[p] # "insert" => Len(crowdsourced_reports') = Len(crowdsourced_reports)
          /\ (pc[p] # "done" /\ pc'[p] = "done") =>
                /\ resp'[p].status = 200
                /\ resp'[p].isRejected
      ]_vars

C10_Witness ==
    \E p \in Procs :
        /\ OutOfRange(p)
        /\ pc[p] = "done" /\ resp[p].status = 200 /\ resp[p].isRejected
        /\ \E r \in Rows : r.is_rejected /\ r.anonymous_user_id = req[p].anonymous_user_id

(* C11: the row a request inserts carries, when it is accepted, a dve_score *)
(* equal to the trust score the request used times the row's time decay    *)
(* times the row's location factor; and the dve_score of every row in the  *)
(* store, accepted or rejected, lies between 0 and 1                       *)
C11_ScoreIsProductWithinUnitRange ==
    [][/\ \A p \in Procs : (pc[p] = "insert" /\ pc'[p] = "window") =>
             LET row == crowdsourced_reports'[Len(crowdsourced_reports')]
             IN  /\ row.anonymous_user_id = req[p].anonymous_user_id
                 /\ row.trust_score_at_submission = loc[p].trustScore
                 /\ row.dve_score = loc'[p].dveScore
                 /\ ~row.is_rejected =>
                       row.dve_score * row.time_decay_factor.den * One * One
                         = loc[p].trustScore * row.time_decay_factor.num
                             * row.location_factor
       /\ \A r \in Range(crowdsourced_reports') :
             0 <= r.dve_score /\ r.dve_score <= One
      ]_vars

(* an accepted report scored on the ramp, strictly between 0 and its trust *)
(* score, next to a rejected one                                           *)
C11_Witness ==
    \E r, x \in Rows :
        /\ ~r.is_rejected
        /\ 0 < r.location_factor /\ r.location_factor < One
        /\ 0 < r.dve_score /\ r.dve_score < r.trust_score_at_submission
        /\ x.is_rejected

(* C12: at distance d the location factor is 1.0 for d <= OPTIMAL,         *)
(* 1 - (d - OPTIMAL)/(MAX - OPTIMAL) for OPTIMAL < d <= MAX and 0 beyond   *)
(* MAX; the result is valid exactly when d <= MAX                          *)
C12_LocationFactorIsPiecewiseLinear ==
    "locationResult" \in probe.applied =>
        LET d == probe.distance
            result == probe.locationResult
        IN  /\ result.distance = d
            /\ d <= OPTIMAL_DISTANCE_KM => result.factor = One
            /\ (OPTIMAL_DISTANCE_KM < d /\ d <= MAX_DISTANCE_KM) =>
                  (One - result.factor) * (MAX_DISTANCE_KM - OPTIMAL_DISTANCE_KM)
                     = (d - OPTIMAL_DISTANCE_KM) * One
            /\ d = MAX_DISTANCE_KM => result.factor = 0
            /\ d > MAX_DISTANCE_KM => result.factor = 0
            /\ result.isValid <=> d <= MAX_DISTANCE_KM

(* the function applied at exactly the maximal distance *)
C12_Witness ==
    /\ "locationResult" \in probe.applied
    /\ probe.distance = MAX_DISTANCE_KM
    /\ probe.locationResult.isValid

(* 0.5 to the power k, in thousandths *)
RECURSIVE HalfToThe(_)
HalfToThe(k) ==
    IF k = 0 THEN [num |-> One, den |-> 1]
    ELSE [num |-> HalfToThe(k - 1).num, den |-> 2 * HalfToThe(k - 1).den]

(* C13: at age a (hours) the time decay is 0 for a > MAX_REPORT_AGE_HOURS  *)
(* and 0.5^(a / TIME_DECAY_HALF_LIFE) for 0 <= a <= MAX_REPORT_AGE_HOURS:  *)
(* 1 at a = 0, strictly positive up to and including the limit, and        *)
(* strictly smaller than at every smaller age                              *)
C13_TimeDecayHalvesUpToTheLimit ==
    "timeDecay" \in probe.applied =>
        LET a == probe.age
            decay == probe.timeDecay
        IN  /\ a > MAX_REPORT_AGE_HOURS => decay.num = 0
            /\ a <= MAX_REPORT_AGE_HOURS =>
                  /\ decay.num * HalfToThe(a \div TIME_DECAY_HALF_LIFE).den
                       = HalfToThe(a \div TIME_DECAY_HALF_LIFE).num * decay.den
                  /\ decay.num > 0
                  /\ a = 0 => decay.num = One * decay.den
                  /\ \A b \in Ages : b < a =>
                        LET earlier == calculateTimeDecay(now, now + b)
                        IN  earlier.num * decay.den > decay.num * earlier.den

(* the function applied at exactly the age limit *)
C13_Witness ==
    /\ "timeDecay" \in probe.applied
    /\ probe.age = MAX_REPORT_AGE_HOURS
    /\ probe.timeDecay.num > 0
    /\ probe.timeDecay.num < One * probe.timeDecay.den

(* the reports of fuel type f among the reports W *)
GroupOf(W, f) == { r \in W : r.fuel_type = f }

DistinctSubmitters(G) == Cardinality({ r.anonymous_user_id : r \in G })

(* mean of dve_score over G plus CONSENSUS_BONUS, capped at 1, is below /  *)
(* at least VERIFICATION_THRESHOLD (the cap is above the threshold)        *)
ConfidenceBelowThreshold(G) ==
    TotalScore(G) + CONSENSUS_BONUS * Cardinality(G)
        < VERIFICATION_THRESHOLD * Cardinality(G)

EntriesOf(table, stationId, f) ==
    { e \in table : e.station_id = stationId /\ e.fuel_type = f }

(* C14: in every step of a run that has read its window, for every fuel    *)
(* type whose group in that window has enough distinct submitters but a     *)
(* final confidence below VERIFICATION_THRESHOLD, the Verified Fuel Entry   *)
(* of (station, fuel type) is neither created nor changed and every report  *)
(* of the group keeps its is_verified and is_rejected flags                 *)
C14_BelowThresholdChangesNothing ==
    [][\A p \in Procs : (pc[p] \in {"window", "upsert", "mark"} /\ Steps(p)) =>
          \A f \in FuelTypes :
              LET G == GroupOf(Range(loc'[p].reports), f)
              IN  (/\ DistinctSubmitters(G) >= MIN_REPORTS_FOR_CONSENSUS
                   /\ ConfidenceBelowThreshold(G)) =>
                      /\ EntriesOf(verified_fuel_data', req[p].station_id, f)
                           = EntriesOf(verified_fuel_data, req[p].station_id, f)
                      /\ \A r \in G :
                            /\ crowdsourced_reports'[r.id].is_verified
                                 = crowdsourced_reports[r.id].is_verified
                            /\ crowdsourced_reports'[r.id].is_rejected
                                 = crowdsourced_reports[r.id].is_rejected
      ]_vars

(* a run has finished over a group of two submitters below the threshold:  *)
(* no entry for the key, the reports pending                                *)
C14_Witness ==
    \E p \in Procs : \E f \in FuelTypes :
        LET G == GroupOf(Range(loc[p].reports), f)
        IN  /\ pc[p] = "done" /\ resp[p].status = 200
            /\ DistinctSubmitters(G) >= MIN_REPORTS_FOR_CONSENSUS
            /\ ConfidenceBelowThreshold(G)
            /\ EntriesOf(verified_fuel_data, req[p].station_id, f) = {}
            /\ \A r \in G : /\ ~crowdsourced_reports[r.id].is_verified
                            /\ ~crowdsourced_reports[r.id].is_rejected

(* the consensus window of station stationId at time t, read from the store *)
WindowAt(stationId, t) ==
    { r \in Rows : /\ r.station_id = stationId
                   /\ ~r.is_rejected
                   /\ r.timestamp >= t - MAX_REPORT_AGE_HOURS }

(* C15: when a submit_report run served alone has completed, every fuel     *)
(* type whose group in the window of its station has at least               *)
(* MIN_REPORTS_FOR_CONSENSUS distinct submitters and a final confidence of  *)
(* at least VERIFICATION_THRESHOLD has a Verified Fuel Entry with           *)
(* is_available = true, and every report of the group is verified; scores   *)
(* 0.5 and 0.6 of two submitters give confidence 0.75                       *)
C15_PassingGroupIsVerified ==
    /\ \A p \in Procs : (pc[p] = "done" /\ resp[p].body = "dveResult") =>
          \A f \in FuelTypes :
              LET G == GroupOf(WindowAt(req[p].station_id, now), f)
              IN  (/\ DistinctSubmitters(G) >= MIN_REPORTS_FOR_CONSENSUS
                   /\ ~ConfidenceBelowThreshold(G)) =>
                      /\ \E e \in EntriesOf(verified_fuel_data, req[p].station_id, f) :
                            e.is_available
                      /\ \A r \in G : r.is_verified
    /\ LET example == << [anonymous_user_id |-> "u1", dve_score |-> 500],
                         [anonymous_user_id |-> "u2", dve_score |-> 600] >>
       IN  /\ groupPasses(example)
           /\ finalScore(example) = [num |-> 750, den |-> 1]

(* a run has completed over two submitters with scores 0.5 and 0.25: the    *)
(* entry has confidence 0.575 and both reports are verified                 *)
C15_Witness ==
    \E p \in Procs : \E f \in FuelTypes :
        LET G == GroupOf(WindowAt(req[p].station_id, now), f)
        IN  /\ pc[p] = "done" /\ resp[p].body = "dveResult"
            /\ Cardinality(G) = 2 /\ DistinctSubmitters(G) = 2
            /\ { r.dve_score : r \in G } = {500, 250}
            /\ \E e \in EntriesOf(verified_fuel_data, req[p].station_id, f) :
                  e.is_available /\ e.confidence_score = [num |-> 575, den |-> 1]
            /\ \A r \in G : r.is_verified

(* C16: the verified_by_count an upsert writes is the number of distinct    *)
(* anonymous_user_id among the reports of the fuel type in the window the   *)
(* writing run has read                                                     *)
C16_CountIsDistinctSubmittersOfWindow ==
    [][\A p \in Procs : (pc[p] = "upsert" /\ pc'[p] = "mark") =>
          \E e \in EntriesOf(verified_fuel_data', req[p].station_id, loc[p].fuelType) :
              e.verified_by_count = DistinctSubmitters(WindowGroup(p))
      ]_vars

(* an entry written from more reports than submitters *)
C16_Witness ==
    \E p \in Procs :
        /\ pc[p] = "mark"
        /\ Cardinality(WindowGroup(p)) > DistinctSubmitters(WindowGroup(p))
        /\ \E e \in EntriesOf(verified_fuel_data, req[p].station_id, loc[p].fuelType) :
              /\ e.verified_by_count = DistinctSubmitters(WindowGroup(p))
              /\ e.verified_by_count < Cardinality(WindowGroup(p))

(* request p runs consensus over the window the request before it has read *)
(* and verified: its own report is rejected, and the report before it is    *)
(* an accepted report of the same station and hour that is verified         *)
RunsAgain(p) ==
    LET n == Len(crowdsourced_reports)
    IN  /\ loc[p].isRejected
        /\ n >= 2
        /\ crowdsourced_reports[n].is_rejected
        /\ crowdsourced_reports[n].anonymous_user_id = req[p].anonymous_user_id
        /\ crowdsourced_reports[n - 1].station_id = req[p].station_id
        /\ crowdsourced_reports[n - 1].timestamp = now
        /\ ~crowdsourced_reports[n - 1].is_rejected
        /\ crowdsourced_reports[n - 1].is_verified

(* C17: a run over the same in-window reports as the run before it, which   *)
(* has upserted and set is_verified on them, upserts again, and every       *)
(* upsert it makes finds an entry of the key and leaves its confidence and  *)
(* its verified_by_count as they were                                       *)
C17_SecondRunWritesTheSame ==
    [][\A p \in Procs : RunsAgain(p) =>
          /\ (pc[p] = "window" /\ pc'[p] # "window") => pc'[p] = "upsert"
          /\ (pc[p] = "upsert" /\ pc'[p] = "mark") =>
                \E e \in EntriesOf(verified_fuel_data, req[p].station_id, loc[p].fuelType) :
                \E w \in EntriesOf(verified_fuel_data', req[p].station_id, loc[p].fuelType) :
                    /\ w.confidence_score = e.confidence_score
                    /\ w.verified_by_count = e.verified_by_count
      ]_vars

(* the second run has upserted over a window whose reports are all verified *)
C17_Witness ==
    \E p \in Procs :
        /\ RunsAgain(p)
        /\ pc[p] = "mark"
        /\ \A r \in WindowGroup(p) : r.is_verified
        /\ EntriesOf(verified_fuel_data, req[p].station_id, loc[p].fuelType) # {}

(* C18: in every step, a Verified Fuel Entry that exists still exists       *)
(* afterwards for its (station, fuel type) with is_available = true, and    *)
(* it is the same entry unless the step is a run's upsert of that key       *)
C18_EntryPersistsAvailable ==
    [][\A e \in verified_fuel_data :
          \E w \in EntriesOf(verified_fuel_data', e.station_id, e.fuel_type) :
              /\ w.is_available
              /\ w # e => \E p \in Procs :
                             /\ pc[p] = "upsert" /\ pc'[p] = "mark"
                             /\ req[p].station_id = e.station_id
                             /\ loc[p].fuelType = e.fuel_type
      ]_vars

(* an entry whose reports have all left the window, after a later request   *)
(* for its station has completed                                            *)
C18_Witness ==
    \E e \in verified_fuel_data :
        /\ e.is_available
        /\ GroupOf(WindowAt(e.station_id, now), e.fuel_type) = {}
        /\ \E r \in Rows : /\ r.station_id = e.station_id
                           /\ r.fuel_type = e.fuel_type
                           /\ r.timestamp < now - MAX_REPORT_AGE_HOURS
                           /\ r.is_verified
        /\ \E p \in Procs : /\ pc[p] = "done" /\ resp[p].status = 200
                            /\ req[p].station_id = e.station_id

(* request p's insert of its Report row has failed *)
ReportNotPersisted(p) == loc[p].error = "crowdsourced_reports.insert"

(* C19: once the insert of a request's Report row has failed, no step of    *)
(* that request enters the consensus loop's writes, upserts a Verified Fuel *)
(* Entry or changes the is_verified flag of a report                        *)
C19_NoConsensusAfterFailedInsert ==
    [][\A p \in Procs : (ReportNotPersisted(p) /\ Steps(p)) =>
          /\ pc'[p] \notin {"upsert", "mark"}
          /\ verified_fuel_data' = verified_fuel_data
          /\ \A i \in 1..Len(crowdsourced_reports) :
                crowdsourced_reports'[i].is_verified
                   = crowdsourced_reports[i].is_verified
      ]_vars

(* C20: a submit_report request one of whose store calls has failed is      *)
(* answered with a server-side fault (status 500), never with a success     *)
(* response or a not-found error                                            *)
C20_StoreFailureIsServerFault ==
    \A p \in Procs :
        (pc[p] = "done" /\ loc[p].error \in StoreCalls) => resp[p].status = 500

(* C21: a request whose report has been rejected for distance does nothing  *)
(* after the insert of its Report row but answer: no step of it enters the  *)
(* consensus loop's writes, upserts a Verified Fuel Entry or changes the    *)
(* is_verified flag of a report                                             *)
C21_RejectedSubmissionRunsNoConsensus ==
    [][\A p \in Procs : (loc[p].isRejected /\ Steps(p) /\ pc[p] # "done") =>
          /\ pc'[p] \notin {"upsert", "mark"}
          /\ verified_fuel_data' = verified_fuel_data
          /\ \A i \in 1..Len(crowdsourced_reports) :
                crowdsourced_reports'[i].is_verified
                   = crowdsourced_reports[i].is_verified
      ]_vars

(* entry e carries the confidence and the count computed from the reports G *)
CarriesValuesOf(e, G) ==
    LET n == Cardinality(G)
        total == TotalScore(G)
    IN  /\ e.verified_by_count = DistinctSubmitters(G)
        /\ IF total + CONSENSUS_BONUS * n >= One * n
             THEN e.confidence_score.num = One * e.confidence_score.den
             ELSE e.confidence_score.num * n
                    = (total + CONSENSUS_BONUS * n) * e.confidence_score.den

(* request p has run with no other request in flight from its arrival on *)
RanAlone(p) == pc[p] # "idle" /\ Len(crowdsourced_reports) = MaxReports + 1

(* every upsert leaves the entry of its key with the values computed from   *)
(* the window its own run has read, whatever entry was there                *)
LastWriteWins ==
    \A p \in Procs : (pc[p] = "upsert" /\ pc'[p] = "mark") =>
        \E e \in EntriesOf(verified_fuel_data', req[p].station_id, loc[p].fuelType) :
            /\ CarriesValuesOf(e, WindowGroup(p))
            /\ e.last_verified_at = now

(* C22 as stated: last write wins, and once the next request for the        *)
(* station has completed alone, every entry of the station carries the      *)
(* confidence and count computed from all non-rejected in-window reports    *)
(* of its key                                                               *)
C22_AnyEntryIsCorrectedByNextRun ==
    [][/\ LastWriteWins
       /\ \A p \in Procs : (RanAlone(p) /\ pc[p] # "done" /\ pc'[p] = "done") =>
             \A e \in verified_fuel_data' :
                 e.station_id = req[p].station_id =>
                     CarriesValuesOf(e,
                        GroupOf(WindowAt(req[p].station_id, now)', e.fuel_type))
      ]_vars

(* C22, amended: last write wins, and once the next request for the         *)
(* station has completed alone, the entry of every key whose non-rejected   *)
(* in-window reports have at least MIN_REPORTS_FOR_CONSENSUS distinct       *)
(* submitters and a confidence of at least VERIFICATION_THRESHOLD carries   *)
(* the confidence and count computed from all those reports; the entry of   *)
(* a key whose reports do not pass is left as it was                        *)
C22_PassingEntryIsCorrectedByNextRun ==
    [][/\ LastWriteWins
       /\ \A p \in Procs : (RanAlone(p) /\ pc[p] # "done" /\ pc'[p] = "done") =>
             \A f \in FuelTypes :
                 LET G == GroupOf(WindowAt(req[p].station_id, now)', f)
                 IN  (/\ DistinctSubmitters(G) >= MIN_REPORTS_FOR_CONSENSUS
                      /\ ~ConfidenceBelowThreshold(G)) =>
                         \E e \in EntriesOf(verified_fuel_data', req[p].station_id, f) :
                             CarriesValuesOf(e, G)
       /\ \A p \in Procs : (RanAlone(p) /\ Steps(p)) =>
             \A f \in FuelTypes :
                 LET G == GroupOf(WindowAt(req[p].station_id, now)', f)
                 IN  (\/ DistinctSubmitters(G) < MIN_REPORTS_FOR_CONSENSUS
                      \/ ConfidenceBelowThreshold(G)) =>
                         EntriesOf(verified_fuel_data', req[p].station_id, f)
                           = EntriesOf(verified_fuel_data, req[p].station_id, f)
      ]_vars

(* the request that runs alone is about to upsert a key whose entry is      *)
(* stale: the reports stored before it pass, and the entry left by the      *)
(* overlapping runs does not carry the confidence computed from them        *)
C22_Witness ==
    \E p \in Procs :
        LET before == { r \in WindowAt(req[p].station_id, now) :
                          r.id <= MaxReports /\ r.fuel_type = loc[p].fuelType }
        IN  /\ RanAlone(p) /\ pc[p] = "upsert"
            /\ DistinctSubmitters(before) >= MIN_REPORTS_FOR_CONSENSUS
            /\ ~ConfidenceBelowThreshold(before)
            /\ \E e \in EntriesOf(verified_fuel_data, req[p].station_id, loc[p].fuelType) :
                  ~CarriesValuesOf(e, before)

(* the Trust Score rows of submitter u, and their number *)
TrustRowsOf(table, u) == { r \in BagToSet(table) : r.anonymous_user_id = u }

TrustRowCount(table, u) ==
    BagCardinality([ r \in TrustRowsOf(table, u) |-> CopiesIn(r, table) ])

(* C23: the trust_score of every Trust Score row lies within               *)
(* [MIN_TRUST_SCORE, MAX_TRUST_SCORE]                                       *)
C23_TrustWithinBounds ==
    \A r \in BagToSet(user_trust_scores) :
        MIN_TRUST_SCORE <= r.trust_score /\ r.trust_score <= MAX_TRUST_SCORE

(* every submitter has a Trust Score row and has had a report scored with  *)
(* it                                                                      *)
C23_Witness ==
    \A u \in Users :
        /\ TrustRowCount(user_trust_scores, u) >= 1
        /\ \E r \in Rows : /\ r.anonymous_user_id = u
                           /\ r.trust_score_at_submission >= MIN_TRUST_SCORE

(* C24: a request whose submitter has no Trust Score row when it reads      *)
(* goes on to insert one row at INITIAL_TRUST_SCORE and scores with that;   *)
(* a request whose submitter has a row inserts none and scores with the     *)
(* stored trust_score; no other step of a request adds a Trust Score row;   *)
(* the row inserted into the Report table records the trust score used      *)
C24_TrustRowCreatedOnlyWhenAbsent ==
    [][\A p \in Procs :
          LET u == req[p].anonymous_user_id
          IN  /\ (pc[p] = "trust" /\ pc'[p] # "trust") =>
                    IF TrustRowCount(user_trust_scores, u) = 0
                      THEN pc'[p] = "trust_insert"
                      ELSE /\ pc'[p] = "insert"
                           /\ \E r \in TrustRowsOf(user_trust_scores, u) :
                                 loc'[p].trustScore = r.trust_score
              /\ (pc[p] = "trust_insert" /\ pc'[p] = "insert") =>
                    /\ TrustRowCount(user_trust_scores', u)
                          = TrustRowCount(user_trust_scores, u) + 1
                    /\ \A v \in Users \ {u} :
                          TrustRowCount(user_trust_scores', v)
                             = TrustRowCount(user_trust_scores, v)
                    /\ \A r \in TrustRowsOf(user_trust_scores', u) :
                          r.trust_score = INITIAL_TRUST_SCORE
                    /\ loc'[p].trustScore = INITIAL_TRUST_SCORE
              /\ (pc[p] # "trust_insert" /\ Steps(p)) =>
                    user_trust_scores' = user_trust_scores
              /\ (pc[p] = "insert" /\ pc'[p] = "window") =>
                    crowdsourced_reports'[Len(crowdsourced_reports')]
                        .trust_score_at_submission = loc[p].trustScore
      ]_vars

(* C29: every Trust Score row in the table is in the table after every      *)
(* step, as many times, with its trust_score and counters as they were      *)
C29_TrustRowsAreNeverUpdated ==
    [][\A r \in BagToSet(user_trust_scores) :
          CopiesIn(r, user_trust_scores') >= CopiesIn(r, user_trust_scores)
      ]_vars

(* a submitter has had one report verified and another rejected; the row    *)
(* is as it was created                                                     *)
C29_Witness ==
    \E u \in Users :
        /\ \E r \in Rows : r.anonymous_user_id = u /\ r.is_verified
        /\ \E r \in Rows : r.anonymous_user_id = u /\ r.is_rejected
        /\ TrustRowsOf(user_trust_scores, u) =
              { [anonymous_user_id |-> u, trust_score |-> INITIAL_TRUST_SCORE,
                 total_reports |-> 0, correct_reports |-> 0,
                 incorrect_reports |-> 0] }

(* C25: a get_admin_data request leaves the Report, Trust Score and         *)
(* Verified Fuel Entry tables as they are, and the config it returns holds  *)
(* the constants that scoring and consensus use                             *)
C25_AdminDataIsReadOnly ==
    [][\A p \in Procs :
          (pc[p] = "idle" /\ pc'[p] = "done" /\ resp'[p].body = "admin") =>
              /\ resp'[p].status = 200
              /\ crowdsourced_reports' = crowdsourced_reports
              /\ user_trust_scores' = user_trust_scores
              /\ verified_fuel_data' = verified_fuel_data
              /\ LET config == resp'[p].config
                 IN  /\ config.INITIAL_TRUST_SCORE = INITIAL_TRUST_SCORE
                     /\ config.MIN_TRUST_SCORE = MIN_TRUST_SCORE
                     /\ config.MAX_TRUST_SCORE = MAX_TRUST_SCORE
                     /\ config.TRUST_INCREMENT = TRUST_INCREMENT
                     /\ config.TRUST_DECREMENT = TRUST_DECREMENT
                     /\ config.TIME_DECAY_HALF_LIFE = TIME_DECAY_HALF_LIFE
                     /\ config.MAX_REPORT_AGE_HOURS = MAX_REPORT_AGE_HOURS
                     /\ config.MAX_DISTANCE_KM = MAX_DISTANCE_KM
                     /\ config.OPTIMAL_DISTANCE_KM = OPTIMAL_DISTANCE_KM
                     /\ config.MIN_REPORTS_FOR_CONSENSUS = MIN_REPORTS_FOR_CONSENSUS
                     /\ config.CONSENSUS_THRESHOLD = CONSENSUS_THRESHOLD
                     /\ config.CONSENSUS_BONUS = CONSENSUS_BONUS
                     /\ config.VERIFICATION_THRESHOLD = VERIFICATION_THRESHOLD
      ]_vars

(* get_admin_data has answered while a submit_report is between its upsert *)
(* and its updates, the three tables not empty                              *)
C25_Witness ==
    \E p, q \in Procs :
        /\ pc[p] = "done" /\ resp[p].body = "admin"
        /\ pc[q] = "mark"
        /\ crowdsourced_reports # << >>
        /\ user_trust_scores # EmptyBag
        /\ verified_fuel_data # {}

(* request p carries is_manual_location = true *)
ManualLocation(p) ==
    "is_manual_location" \in DOMAIN req[p] /\ req[p].is_manual_location

(* C26: the Report row inserted for an accepted request with                *)
(* is_manual_location = true carries a dve_score of 0.1 times the product   *)
(* trust score x time decay x location factor that the same submission      *)
(* gets without the flag                                                    *)
C26_ManualLocationScoresOneTenth ==
    [][\A p \in Procs :
          (ManualLocation(p) /\ pc[p] = "insert" /\ pc'[p] = "window") =>
              LET row == crowdsourced_reports'[Len(crowdsourced_reports')]
              IN  ~row.is_rejected =>
                     10 * row.dve_score
                        = (loc[p].trustScore * row.time_decay_factor.num
                              * row.location_factor)
                            \div (row.time_decay_factor.den * One * One)
      ]_vars

Ids(S) == { r.id : r \in S }

(* C27: the reports a run reads for its station are exactly the reports in  *)
(* the store that are of that station, not rejected, and not older than     *)
(* MAX_REPORT_AGE_HOURS (a report of exactly that age is read); the entry   *)
(* it upserts carries the count and confidence computed from those reports  *)
(* of the key, and the reports it flags verified are among them             *)
C27_WindowIsStationUnrejectedRecent ==
    [][\A p \in Procs :
          LET W == { r \in Rows : /\ r.station_id = req[p].station_id
                                  /\ ~r.is_rejected
                                  /\ now - r.timestamp <= MAX_REPORT_AGE_HOURS }
          IN  /\ (pc[p] = "window" /\ pc'[p] # "window") =>
                    Ids(Range(loc'[p].reports)) = Ids(W)
              /\ (pc[p] = "upsert" /\ pc'[p] = "mark") =>
                    \E e \in EntriesOf(verified_fuel_data', req[p].station_id,
                                       loc[p].fuelType) :
                        CarriesValuesOf(e, GroupOf(W, loc[p].fuelType))
              /\ (pc[p] = "mark" /\ Steps(p)) =>
                    \A i \in 1..Len(crowdsourced_reports) :
                        crowdsourced_reports'[i] # crowdsourced_reports[i] =>
                            i \in Ids(GroupOf(W, loc[p].fuelType))
      ]_vars

(* a run has upserted from a window that holds a report aged exactly        *)
(* MAX_REPORT_AGE_HOURS, while the store holds a rejected report of the     *)
(* same station and hour as the run's own                                   *)
C27_Witness ==
    \E p \in Procs :
        /\ pc[p] = "mark"
        /\ \E r \in WindowGroup(p) : now - r.timestamp = MAX_REPORT_AGE_HOURS
        /\ \E x \in Rows : /\ x.is_rejected
                           /\ x.station_id = req[p].station_id
                           /\ x.fuel_type = loc[p].fuelType
                           /\ x.timestamp = now
                           /\ x.id \notin Ids(Range(loc[p].reports))

(* C28: when a request reads its consensus window its Report row is in the  *)
(* store, and if the report is accepted it is among the reports read        *)
C28_OwnReportIsInWindow ==
    [][\A p \in Procs : (pc[p] = "window" /\ pc'[p] # "window") =>
          /\ loc[p].insertedReport \in 1..Len(crowdsourced_reports)
          /\ LET own == crowdsourced_reports[loc[p].insertedReport]
             IN  /\ own.anonymous_user_id = req[p].anonymous_user_id
                 /\ own.station_id = req[p].station_id
                 /\ own.is_rejected = loc[p].isRejected
                 /\ ~own.is_rejected => own.id \in Ids(Range(loc'[p].reports))
      ]_vars

(* a run is upserting from a window that holds its own report, which is     *)
(* not the report stored last                                               *)
C28_Witness ==
    \E p \in Procs :
        /\ pc[p] = "upsert"
        /\ ~loc[p].isRejected
        /\ loc[p].insertedReport \in Ids(WindowGroup(p))
        /\ loc[p].insertedReport < Len(crowdsourced_reports)

(* C30: every Report row with is_verified = true has a Verified Fuel Entry  *)
(* for its (station, fuel type)                                             *)
C30_VerifiedRowHasEntry ==
    \A r \in Rows :
        r.is_verified => EntriesOf(verified_fuel_data, r.station_id, r.fuel_type) # {}

(* two runs are flagging the reports of the same key at once, one report    *)
(* flagged and another not yet                                              *)
C30_Witness ==
    \E p, q \in Procs :
        /\ p # q /\ pc[p] = "mark" /\ pc[q] = "mark"
        /\ loc[p].fuelType = loc[q].fuelType
        /\ \E r, x \in Rows : /\ r.is_verified /\ ~x.is_verified /\ ~x.is_rejected
                              /\ r.station_id = x.station_id
                              /\ r.fuel_type = x.fuel_type
                              /\ r.fuel_type = loc[p].fuelType

(* C31: every Verified Fuel Entry has a confidence_score within             *)
(* [VERIFICATION_THRESHOLD, 1.0], a verified_by_count of at least           *)
(* MIN_REPORTS_FOR_CONSENSUS, and is_available = true                       *)
C31_EntryIsAboveThresholdAndAvailable ==
    \A e \in verified_fuel_data :
        /\ e.confidence_score.num >= VERIFICATION_THRESHOLD * e.confidence_score.den
        /\ e.confidence_score.num <= One * e.confidence_score.den
        /\ e.verified_by_count >= MIN_REPORTS_FOR_CONSENSUS
        /\ e.is_available

(* an entry close to the threshold, written from a group with a zero score *)
C31_Witness ==
    \E e \in verified_fuel_data :
        /\ e.confidence_score.num < INITIAL_TRUST_SCORE * e.confidence_score.den
        /\ e.verified_by_count = MIN_REPORTS_FOR_CONSENSUS
        /\ \E r \in Rows : /\ r.station_id = e.station_id
                           /\ r.fuel_type = e.fuel_type
                           /\ ~r.is_rejected /\ r.dve_score = 0

(* no request is in flight *)
AllFinished == \A p \in Procs : pc[p] \in {"idle", "done"}

(* C32: a request that reads its window reads the accepted report of every  *)
(* request of the same station that has already inserted its own, so of     *)
(* two overlapping requests the later reader has both reports; and once no  *)
(* request is in flight, every key whose in-window reports have enough      *)
(* distinct submitters and meet the threshold has a Verified Fuel Entry     *)
(* and all those reports are flagged verified                               *)
C32_NoConsensusLostToRace ==
    [][/\ \A p, q \in Procs :
             (/\ pc[p] = "window" /\ pc'[p] # "window"
              /\ q # p
              /\ loc[q].insertedReport # Null
              /\ ~loc[q].isRejected
              /\ req[q].station_id = req[p].station_id) =>
                 loc[q].insertedReport \in Ids(Range(loc'[p].reports))
       /\ AllFinished' =>
             \A s \in StationIds : \A f \in FuelTypes :
                 LET G == GroupOf(WindowAt(s, now)', f)
                 IN  (/\ DistinctSubmitters(G) >= MIN_REPORTS_FOR_CONSENSUS
                      /\ ~ConfidenceBelowThreshold(G)) =>
                         /\ EntriesOf(verified_fuel_data', s, f) # {}
                         /\ \A r \in G : r.is_verified
      ]_vars

(* the request that stored the first report has read a window that also     *)
(* holds the report an overlapping request of another submitter stored      *)
(* after it; both requests have finished, the entry exists and both         *)
(* reports are verified                                                     *)
C32_Witness ==
    \E p \in Procs :
        /\ pc[p] = "done" /\ AllFinished
        /\ loc[p].insertedReport = 1
        /\ Len(loc[p].reports) = 2
        /\ \E r \in Rows : /\ r.id = 2
                           /\ r.anonymous_user_id # req[p].anonymous_user_id
                           /\ r.fuel_type = req[p].fuel_type
                           /\ r.is_verified
        /\ crowdsourced_reports[1].is_verified
        /\ EntriesOf(verified_fuel_data, req[p].station_id, req[p].fuel_type) # {}

(* C33: a submit_report for station S leaves every Verified Fuel Entry of   *)
(* another station and every Report row of another station as they are;     *)
(* the rows it flags and the entries it writes are of S                     *)
C33_OnlyOwnStationIsModified ==
    [][\A p \in Procs : Steps(p) =>
          LET S == IF pc[p] = "idle" THEN req'[p].station_id ELSE req[p].station_id
          IN  /\ { e \in verified_fuel_data' : e.station_id # S }
                   = { e \in verified_fuel_data : e.station_id # S }
              /\ \A i \in 1..Len(crowdsourced_reports) :
                     crowdsourced_reports[i].station_id # S =>
                         crowdsourced_reports'[i] = crowdsourced_reports[i]
              /\ \A i \in 1..Len(crowdsourced_reports') :
                     i > Len(crowdsourced_reports) =>
                         crowdsourced_reports'[i].station_id = S
      ]_vars

(* a run for one station is flagging its reports while an accepted,         *)
(* unverified report of the same fuel type and of another submitter is      *)
(* stored for another station                                               *)
C33_Witness ==
    \E p \in Procs :
        /\ pc[p] = "mark"
        /\ \E r \in Rows : /\ r.station_id # req[p].station_id
                           /\ r.fuel_type = loc[p].fuelType
                           /\ ~r.is_rejected /\ ~r.is_verified
                           /\ r.timestamp >= loc[p].cutoff

(* the run of a submission for one fuel type upserts the entry of another   *)
(* fuel type of its station                                                 *)
OtherFuelTypeIsUpserted ==
    \E p \in Procs :
        /\ pc[p] = "mark"
        /\ loc[p].fuelType # req[p].fuel_type
        /\ EntriesOf(verified_fuel_data, req[p].station_id, loc[p].fuelType) # {}

(* C34: no step changes a stored Report row except to set is_verified:      *)
(* every other field keeps the value of the insert, and is_verified never   *)
(* goes back to false, whatever the age of the report                       *)
C34_ReportKeepsSubmissionValues ==
    [][/\ Len(crowdsourced_reports') >= Len(crowdsourced_reports)
       /\ \A i \in 1..Len(crowdsourced_reports) :
             LET old == crowdsourced_reports[i]
                 new == crowdsourced_reports'[i]
             IN  /\ new = [old EXCEPT !.is_verified = new.is_verified]
                 /\ old.is_verified => new.is_verified
      ]_vars

(* a report flagged verified by a run that took place a window length       *)
(* after its submission still holds the score of its submission             *)
C34_Witness ==
    \E r \in Rows : \E e \in verified_fuel_data :
        /\ r.is_verified
        /\ e.station_id = r.station_id /\ e.fuel_type = r.fuel_type
        /\ e.last_verified_at >= r.timestamp + MAX_REPORT_AGE_HOURS
        /\ r.time_decay_factor = Frac(One, 1)
        /\ r.dve_score = combineScore(r.trust_score_at_submission, Frac(One, 1),
                                      r.location_factor)

(* C35: the time-decay factor stored with every report is 1, never the 0    *)
(* of a stale report, and the dve_score of every accepted report is its     *)
(* trust score times its location factor                                    *)
C35_RecordedDecayIsOne ==
    \A r \in Rows :
        /\ r.time_decay_factor.num = One * r.time_decay_factor.den
        /\ r.time_decay_factor.num # 0
        /\ ~r.is_rejected =>
               r.dve_score * One = r.trust_score_at_submission * r.location_factor

(* an accepted report submitted after time has passed, at a reduced         *)
(* location factor, while a report older than MAX_REPORT_AGE_HOURS is       *)
(* stored                                                                   *)
C35_Witness ==
    \E r, old \in Rows :
        /\ r.timestamp > 0 /\ ~r.is_rejected
        /\ r.location_factor \notin {0, One}
        /\ r.dve_score > 0
        /\ now - old.timestamp > MAX_REPORT_AGE_HOURS

(* C36: every Trust Score row holds INITIAL_TRUST_SCORE, every stored       *)
(* dve_score is at most INITIAL_TRUST_SCORE, and every Verified Fuel Entry  *)
(* has a confidence of at most INITIAL_TRUST_SCORE + CONSENSUS_BONUS, which *)
(* is below the cap of 1.0                                                  *)
C36_ScoresNeverExceedInitialTrust ==
    /\ \A t \in BagToSet(user_trust_scores) : t.trust_score = INITIAL_TRUST_SCORE
    /\ \A r \in Rows : /\ r.trust_score_at_submission = INITIAL_TRUST_SCORE
                       /\ r.dve_score <= INITIAL_TRUST_SCORE
    /\ \A e \in verified_fuel_data :
           /\ e.confidence_score.num
                <= (INITIAL_TRUST_SCORE + CONSENSUS_BONUS) * e.confidence_score.den
           /\ e.confidence_score.num < One * e.confidence_score.den
    /\ \A p \in Procs :
           pc[p] = "upsert" =>
               TotalScore(WindowGroup(p)) + CONSENSUS_BONUS * Cardinality(WindowGroup(p))
                   < One * Cardinality(WindowGroup(p))

(* the largest values are reached: a report of score INITIAL_TRUST_SCORE    *)
(* and an entry of confidence INITIAL_TRUST_SCORE + CONSENSUS_BONUS, with   *)
(* two Trust Score rows for one submitter                                   *)
C36_Witness ==
    /\ \E r \in Rows : r.dve_score = INITIAL_TRUST_SCORE /\ r.is_verified
    /\ \E e \in verified_fuel_data :
           e.confidence_score.num
             = (INITIAL_TRUST_SCORE + CONSENSUS_BONUS) * e.confidence_score.den
    /\ \E u \in Users : TrustRowCount(user_trust_scores, u) >= 2

(* C37: a complete submit_report for a station that exists and has both a   *)
(* latitude and a longitude value, a value of 0 included, is never answered *)
(* with status 404                                                          *)
C37_StationWithCoordinatesIsScorable ==
    [][\A p \in Procs :
          (/\ Arrives(p)
           /\ ~LacksRequiredField(req'[p])
           /\ ~UnknownOrUncoordinated(req'[p].station_id)) =>
             resp'[p].status # 404
      ]_vars

(* a stored report submitted at exactly MAX_DISTANCE_KM from its station *)
AtTheLimit(r) ==
    Abs(r.user_lat - selectStation(r.station_id).lat) = MAX_DISTANCE_KM

(* C38: a submission at exactly MAX_DISTANCE_KM is stored accepted, with    *)
(* location factor 0 and dve_score 0; an entry upserted from a window that  *)
(* holds such a report counts its submitter and takes its zero as a term    *)
(* of the mean, and the loop flags the report like the others of its group  *)
C38_ReportAtTheLimitIsAcceptedWithZero ==
    [][\A p \in Procs :
          /\ (pc[p] = "insert" /\ pc'[p] # "insert" /\ AtTheLimit(req[p])) =>
                 LET row == crowdsourced_reports'[Len(crowdsourced_reports')]
                 IN  /\ Len(crowdsourced_reports') = Len(crowdsourced_reports) + 1
                     /\ row.anonymous_user_id = req[p].anonymous_user_id
                     /\ ~row.is_rejected
                     /\ row.location_factor = 0
                     /\ row.dve_score = 0
          /\ (/\ pc[p] = "upsert" /\ pc'[p] # "upsert"
              /\ \E r \in WindowGroup(p) : AtTheLimit(r)) =>
                 \E e \in EntriesOf(verified_fuel_data', req[p].station_id,
                                    loc[p].fuelType) :
                     /\ CarriesValuesOf(e, WindowGroup(p))
                     /\ e.verified_by_count
                          = Cardinality({ r.anonymous_user_id : r \in WindowGroup(p) })
          /\ (pc[p] = "mark" /\ pc'[p] # "mark") =>
                 \A r \in WindowGroup(p) :
                     AtTheLimit(r) => crowdsourced_reports'[r.id].is_verified
      ]_vars

(* a report at the limit, stored with score 0, is one of the two reports of *)
(* two submitters behind an entry and is flagged verified                   *)
C38_Witness ==
    \E r \in Rows : \E e \in verified_fuel_data :
        /\ AtTheLimit(r) /\ ~r.is_rejected /\ r.dve_score = 0 /\ r.is_verified
        /\ e.station_id = r.station_id /\ e.fuel_type = r.fuel_type
        /\ e.verified_by_count = 2
        /\ Cardinality(GroupOf(Rows, r.fuel_type)) = 2
        /\ 2 * e.confidence_score.num
             = (INITIAL_TRUST_SCORE + 2 * CONSENSUS_BONUS) * e.confidence_score.den

(* the group of fuel type f in window W would be upserted by the loop *)
Passing(W, f) ==
    /\ DistinctSubmitters(GroupOf(W, f)) >= MIN_REPORTS_FOR_CONSENSUS
    /\ ~ConfidenceBelowThreshold(GroupOf(W, f))

(* C39: the early exit changes no outcome: a window of fewer than           *)
(* MIN_REPORTS_FOR_CONSENSUS reports has no group with enough distinct      *)
(* submitters, and for every window a run goes on to upsert exactly when    *)
(* the loop without the early exit would, namely when some group of the     *)
(* window passes, starting with a group that passes; otherwise it answers   *)
(* having written nothing                                                   *)
C39_EarlyExitChangesNothing ==
    [][\A p \in Procs :
          (pc[p] = "window" /\ pc'[p] # "window") =>
             LET W == Range(loc'[p].reports)
             IN  /\ Len(loc'[p].reports) < MIN_REPORTS_FOR_CONSENSUS =>
                        \A f \in FuelTypes :
                            DistinctSubmitters(GroupOf(W, f)) < MIN_REPORTS_FOR_CONSENSUS
                 /\ pc'[p] = "upsert" <=> \E f \in FuelTypes : Passing(W, f)
                 /\ pc'[p] = "upsert" => Passing(W, loc'[p].fuelType)
                 /\ pc'[p] # "upsert" => pc'[p] = "done" /\ resp'[p].status = 200
                 /\ stores' = stores
      ]_vars

(* a run has taken the early exit: its window held one report although the  *)
(* store holds more, and it has answered without an entry being written     *)
C39_Witness ==
    \E p \in Procs :
        /\ pc[p] = "done" /\ resp[p].status = 200 /\ ~resp[p].isRejected
        /\ resp[p].body # "admin"
        /\ Len(loc[p].reports) = 1
        /\ Len(crowdsourced_reports) >= MIN_REPORTS_FOR_CONSENSUS
        /\ verified_fuel_data = {}

==========================================================================
